---- MODULE Spec2Model ----
(***************************************************************************)
(* Model of libs/aws/langchain_aws/chat_models/bedrock.py: the per-provider *)
(* prompt formatters, the structured Anthropic formatter, the adapter       *)
(* facade and the ChatBedrock wrapper (_stream, _generate,                  *)
(* _combine_llm_outputs, bind_tools).                                       *)
(*                                                                         *)
(* Text is a sequence of one-character strings, so that concatenation,      *)
(* rstrip, capitalize, substring search and the image-url pattern are       *)
(* computed character by character as the Python code computes them.        *)
(***************************************************************************)
EXTENDS Integers, Sequences, FiniteSets, TLC

VARIABLES
    provider,                  \* self._get_provider()
    model,                     \* self._get_model()
    streaming,                 \* self.streaming
    system_prompt_with_tools,  \* self.system_prompt_with_tools
    messages,                  \* the caller's message list object
    single,                    \* TRUE: the caller passes messages[1] itself, not a list
    pc,                        \* position of the request in flight
    caller,                    \* who drives the _stream generator in flight
    hook,                      \* arguments last handed to the external invocation hook
    pending,                   \* text deltas the external stream has still to produce
    consumed,                  \* text deltas taken from the external stream so far
    yielded,                   \* chunks _stream has yielded to its caller so far
    delta,                     \* the delta _stream holds between taking and yielding it
    completion,                \* _generate's local completion
    outcome,                   \* what the last finished call returned or raised
    calls,                     \* number of external invoke / invoke_stream calls made
    llm_outputs,               \* the caller's list of output records
    last                       \* operation, argument and result of the last pure call

vars == <<provider, model, streaming, system_prompt_with_tools, messages, single,
          pc, caller, hook, pending, consumed, yielded, delta, completion, outcome, calls,
          llm_outputs, last>>

-----------------------------------------------------------------------------
(* Text literals of the source.                                             *)
HUMAN_PROMPT == <<"\n", "\n", "H", "u", "m", "a", "n", ":">>
AI_PROMPT == <<"\n", "\n", "A", "s", "s", "i", "s", "t", "a", "n", "t", ":">>
USER_PROMPT == <<"\n", "\n", "U", "s", "e", "r", ":">>
BOT_PROMPT == <<"\n", "\n", "B", "o", "t", ":">>
NL == <<"\n">>
NLNL == <<"\n", "\n">>
SP == <<" ">>
COLON_SP == <<":", " ">>
INST_OPEN == <<"[", "I", "N", "S", "T", "]", " ">>
INST_CLOSE == <<" ", "[", "/", "I", "N", "S", "T", "]">>
SYS_OPEN == <<"<", "<", "S", "Y", "S", ">", ">", " ">>
SYS_CLOSE == <<" ", "<", "<", "/", "S", "Y", "S", ">", ">">>
START_HEADER == <<"<", "|", "s", "t", "a", "r", "t", "_", "h", "e", "a", "d", "e", "r", "_", "i", "d", "|", ">">>
END_HEADER == <<"<", "|", "e", "n", "d", "_", "h", "e", "a", "d", "e", "r", "_", "i", "d", "|", ">">>
EOT == <<"<", "|", "e", "o", "t", "_", "i", "d", "|", ">">>
BEGIN_OF_TEXT == <<"<", "|", "b", "e", "g", "i", "n", "_", "o", "f", "_", "t", "e", "x", "t", "|", ">">>
ROLE_USER == <<"u", "s", "e", "r">>
ROLE_ASSISTANT == <<"a", "s", "s", "i", "s", "t", "a", "n", "t">>
ROLE_SYSTEM == <<"s", "y", "s", "t", "e", "m">>
LLAMA3 == <<"l", "l", "a", "m", "a", "3">>
DATA_IMAGE == <<"d", "a", "t", "a", ":", "i", "m", "a", "g", "e", "/">>
BASE64_MARK == <<";", "b", "a", "s", "e", "6", "4", ",">>
LLAMA3_CUE == START_HEADER \o ROLE_ASSISTANT \o END_HEADER \o NLNL

\* the value of a one-element set.  Only({e(x) : x \in {v}}) is LET x == v
\* IN e(x) with v computed once, however often e uses x
Only(S) == CHOOSE x \in S : TRUE

(* Python's str operations, on sequences of characters.                     *)
LOWERS == <<"a", "b", "c", "d", "e", "f", "g", "h", "i", "j", "k", "l", "m", "n", "o", "p", "q", "r", "s", "t", "u", "v", "w", "x", "y", "z">>
UPPERS == <<"A", "B", "C", "D", "E", "F", "G", "H", "I", "J", "K", "L", "M", "N", "O", "P", "Q", "R", "S", "T", "U", "V", "W", "X", "Y", "Z">>
Whitespace == {" ", "\t", "\n", "\r", "\f"}

ToUpper(ch) ==
    IF \E i \in 1..Len(LOWERS) : LOWERS[i] = ch
    THEN UPPERS[CHOOSE i \in 1..Len(LOWERS) : LOWERS[i] = ch]
    ELSE ch

ToLower(ch) ==
    IF \E i \in 1..Len(UPPERS) : UPPERS[i] = ch
    THEN LOWERS[CHOOSE i \in 1..Len(UPPERS) : UPPERS[i] = ch]
    ELSE ch

\* str.capitalize(): first character upper-cased, the rest lower-cased
capitalize(s) ==
    [i \in 1..Len(s) |-> IF i = 1 THEN ToUpper(s[i]) ELSE ToLower(s[i])]

RECURSIVE rstrip(_)
\* str.rstrip(): trailing whitespace removed
rstrip(s) ==
    Only({ IF t # <<>> /\ t[Len(t)] \in Whitespace
           THEN rstrip(SubSeq(t, 1, Len(t) - 1))
           ELSE t : t \in {s} })

\* sub in s
Contains(s, sub) ==
    \E i \in 1..(Len(s) - Len(sub) + 1) : SubSeq(s, i, i + Len(sub) - 1) = sub

EndsWith(s, suffix) ==
    /\ Len(s) >= Len(suffix)
    /\ SubSeq(s, Len(s) - Len(suffix) + 1, Len(s)) = suffix

RECURSIVE Join(_, _)
\* sep.join(parts)
Join(sep, parts) ==
    Only({ IF ps = <<>> THEN <<>>
           ELSE IF Len(ps) = 1 THEN ps[1]
           ELSE ps[1] \o sep \o Join(sep, Tail(ps)) : ps \in {parts} })

\* "".join(parts)
Concat(parts) == Join(<<>>, parts)

(* Python's repr of list content, which an f-string renders for a message   *)
(* whose content is a list.                                                 *)
REPR_TYPE == <<"'", "t", "y", "p", "e", "'", ":", " ">>
REPR_TEXT == <<"'", "t", "e", "x", "t", "'", ":", " ">>
REPR_IMAGE_URL == <<"'", "i", "m", "a", "g", "e", "_", "u", "r", "l", "'", ":", " ", "{", "'", "u", "r", "l", "'", ":", " ">>
REPR_IMAGE_URL_NAME == <<"'", "i", "m", "a", "g", "e", "_", "u", "r", "l", "'">>
REPR_TEXT_NAME == <<"'", "t", "e", "x", "t", "'">>
COMMA_SP == <<",", " ">>
QUOTE == <<"'">>

Quoted(s) == QUOTE \o s \o QUOTE

ItemRepr(item) ==
    IF item.kind = "str" THEN Quoted(item.text)
    ELSE IF item.kind = "other" THEN item.text
    ELSE IF item.type = "image_url"
    THEN <<"{">> \o REPR_TYPE \o REPR_IMAGE_URL_NAME \o COMMA_SP
         \o REPR_IMAGE_URL \o Quoted(item.text) \o <<"}", "}">>
    ELSE IF item.type = "text"
    THEN <<"{">> \o REPR_TYPE \o REPR_TEXT_NAME \o COMMA_SP
         \o REPR_TEXT \o Quoted(item.text) \o <<"}">>
    ELSE <<"{">> \o REPR_TEXT \o Quoted(item.text) \o <<"}">>

\* f"{message.content}"
PyStr(content) ==
    IF content.kind = "str" THEN content.text
    ELSE <<"[">>
         \o Join(COMMA_SP, [i \in 1..Len(content.items) |-> ItemRepr(content.items[i])])
         \o <<"]">>

-----------------------------------------------------------------------------
(* Messages.  type is BaseMessage.type; role is ChatMessage.role; content   *)
(* is a string (kind "str") or a list of items (kind "list"); an item is a  *)
(* string, a dict (type "none": a dict without a "type" key) or anything    *)
(* else (kind "other", text its rendering).                                 *)
StrContent(t) == [kind |-> "str", text |-> t, items |-> <<>>]
ListContent(its) == [kind |-> "list", text |-> <<>>, items |-> its]
StrItem(t) == [kind |-> "str", type |-> "none", text |-> t]
DictItem(ty, t) == [kind |-> "dict", type |-> ty, text |-> t]
OtherItem(t) == [kind |-> "other", type |-> "none", text |-> t]
Msg(ty, ro, c) == [type |-> ty, role |-> ro, content |-> c]
SystemMessage(c) == Msg("system", <<>>, c)
HumanMessage(c) == Msg("human", <<>>, c)
AIMessage(c) == Msg("ai", <<>>, c)
ChatMessage(ro, c) == Msg("chat", ro, c)
ToolMessage(c) == Msg("tool", <<>>, c)

\* a returned value or a raised exception
Ok(v) == [ok |-> TRUE, err |-> "", value |-> v]
Raise(e) == [ok |-> FALSE, err |-> e, value |-> <<>>]

\* the values of a list comprehension, or the first exception raised in it
Collect(results) ==
    Only({ IF \E i \in 1..Len(rs) : ~rs[i].ok
           THEN Raise(rs[CHOOSE i \in 1..Len(rs) :
                         /\ ~rs[i].ok
                         /\ \A j \in 1..(i - 1) : rs[j].ok].err)
           ELSE Ok([i \in 1..Len(rs) |-> rs[i].value]) : rs \in {results} })

-----------------------------------------------------------------------------
(* Plain-text prompt formatters.                                            *)

_convert_one_message_to_text_llama(message) ==
    IF message.type = "chat"
    THEN Ok(NLNL \o capitalize(message.role) \o COLON_SP \o PyStr(message.content))
    ELSE IF message.type = "human"
    THEN Ok(INST_OPEN \o PyStr(message.content) \o INST_CLOSE)
    ELSE IF message.type = "ai"
    THEN Ok(PyStr(message.content))
    ELSE IF message.type = "system"
    THEN Ok(SYS_OPEN \o PyStr(message.content) \o SYS_CLOSE)
    ELSE Raise("ValueError")

convert_messages_to_prompt_llama(msgs) ==
    Only({ IF texts.ok THEN Ok(Join(NL, texts.value)) ELSE texts :
           texts \in {Collect([i \in 1..Len(msgs) |->
                                  _convert_one_message_to_text_llama(msgs[i])])} })

_convert_one_message_to_text_llama3(message) ==
    IF message.type = "chat"
    THEN Ok(START_HEADER \o message.role \o END_HEADER
            \o PyStr(message.content) \o EOT)
    ELSE IF message.type = "human"
    THEN Ok(START_HEADER \o ROLE_USER \o END_HEADER
            \o PyStr(message.content) \o EOT)
    ELSE IF message.type = "ai"
    THEN Ok(START_HEADER \o ROLE_ASSISTANT \o END_HEADER
            \o PyStr(message.content) \o EOT)
    ELSE IF message.type = "system"
    THEN Ok(START_HEADER \o ROLE_SYSTEM \o END_HEADER
            \o PyStr(message.content) \o EOT)
    ELSE Raise("ValueError")

convert_messages_to_prompt_llama3(msgs) ==
    Only({ IF texts.ok
           THEN Ok(Join(NL, <<BEGIN_OF_TEXT>> \o texts.value \o <<LLAMA3_CUE>>))
           ELSE texts :
           texts \in {Collect([i \in 1..Len(msgs) |->
                                  _convert_one_message_to_text_llama3(msgs[i])])} })

_convert_one_message_to_text_anthropic(message, human_prompt, ai_prompt) ==
    IF message.type = "chat"
    THEN Ok(NLNL \o capitalize(message.role) \o COLON_SP \o PyStr(message.content))
    ELSE IF message.type = "human"
    THEN Ok(human_prompt \o SP \o PyStr(message.content))
    ELSE IF message.type = "ai"
    THEN Ok(ai_prompt \o SP \o PyStr(message.content))
    ELSE IF message.type = "system"
    THEN Ok(PyStr(message.content))
    ELSE Raise("ValueError")

\* a System message's text is its content itself, not a rendering of it:
\* content that is a list is no string for "".join
JoinsAsText(message) == message.type # "system" \/ message.content.kind = "str"

\* AnthropicTurns without the empty AI turn
AnthropicTurnsNoCue(msgs) == msgs

\* the list the formatter works on: a copy of the caller's list, with an
\* empty AI turn appended unless the last message is an AI message
AnthropicTurns(msgs) ==
    IF msgs[Len(msgs)].type # "ai"
    THEN Append(msgs, AIMessage(StrContent(<<>>)))
    ELSE msgs

\* the caller's list object once convert_messages_to_prompt_anthropic is
\* over: the append went to the copy
CallerListAfterAnthropic(msgs) == msgs

convert_messages_to_prompt_anthropic(msgs, human_prompt, ai_prompt) ==
    IF msgs = <<>> THEN Raise("IndexError")
    ELSE
      Only({ Only({ IF ~texts.ok THEN texts
                    ELSE IF \E i \in 1..Len(turns) : ~JoinsAsText(turns[i])
                    THEN Raise("TypeError")
                    ELSE Ok(rstrip(Concat(texts.value))) :
                    texts \in {Collect([i \in 1..Len(turns) |->
                                  _convert_one_message_to_text_anthropic(
                                      turns[i], human_prompt, ai_prompt)])} }) :
             turns \in {AnthropicTurns(msgs)} })

_convert_one_message_to_text_mistral(message) ==
    IF message.type = "chat"
    THEN Ok(NLNL \o capitalize(message.role) \o COLON_SP \o PyStr(message.content))
    ELSE IF message.type = "human"
    THEN Ok(INST_OPEN \o PyStr(message.content) \o INST_CLOSE)
    ELSE IF message.type = "ai"
    THEN Ok(PyStr(message.content))
    ELSE IF message.type = "system"
    THEN Ok(SYS_OPEN \o PyStr(message.content) \o SYS_CLOSE)
    ELSE Raise("ValueError")

convert_messages_to_prompt_mistral(msgs) ==
    Only({ IF texts.ok THEN Ok(Join(NL, texts.value)) ELSE texts :
           texts \in {Collect([i \in 1..Len(msgs) |->
                                  _convert_one_message_to_text_mistral(msgs[i])])} })

-----------------------------------------------------------------------------
(* Structured content formatter.                                            *)

\* the effective end of the url for the pattern's "$": the end of the
\* string, or just before one final newline
UrlEnd(url) ==
    IF url # <<>> /\ url[Len(url)] = "\n" THEN Len(url) - 1 ELSE Len(url)

\* positions where ";base64," can start in a match of
\* ^data:(?P<media_type>image/.+);base64,(?P<data>.+)$
Base64Splits(url) ==
    {k \in (Len(DATA_IMAGE) + 2)..(UrlEnd(url) - Len(BASE64_MARK)) :
        /\ SubSeq(url, 1, Len(DATA_IMAGE)) = DATA_IMAGE
        /\ SubSeq(url, k, k + Len(BASE64_MARK) - 1) = BASE64_MARK
        /\ \A i \in 1..UrlEnd(url) : url[i] # "\n"}

NoSource == [type |-> "", media_type |-> <<>>, data |-> <<>>]

\* media_type is greedy: the match splits at the last of Base64Splits
_format_image(image_url) ==
    Only({ IF splits = {}
           THEN Raise("ValueError")
           ELSE Only({ Ok([type |-> "base64",
                           media_type |-> SubSeq(image_url, 6, k - 1),
                           data |-> SubSeq(image_url, k + Len(BASE64_MARK),
                                           UrlEnd(image_url))]) :
                       k \in {s \in splits : \A t \in splits : t <= s} }) :
           splits \in {Base64Splits(image_url)} })

\* content blocks: a text block, an image block, or a dict passed through
TextBlock(t) == [type |-> "text", text |-> t, source |-> NoSource, item |-> StrItem(<<>>)]
ImageBlock(src) == [type |-> "image", text |-> <<>>, source |-> src, item |-> StrItem(<<>>)]
PassedDict(it) == [type |-> "dict", text |-> <<>>, source |-> NoSource, item |-> it]

FormatItem(item) ==
    IF item.kind = "str" THEN Ok(TextBlock(item.text))
    ELSE IF item.kind = "dict"
    THEN IF item.type = "none" THEN Raise("ValueError")
         ELSE IF item.type = "image_url"
         THEN Only({ IF source.ok THEN Ok(ImageBlock(source.value)) ELSE source :
                     source \in {_format_image(item.text)} })
         ELSE Ok(PassedDict(item))
    ELSE Raise("ValueError")

StrOut(t) == [kind |-> "str", text |-> t, blocks |-> <<>>]
ListOut(bs) == [kind |-> "list", text |-> <<>>, blocks |-> bs]

\* the content of one formatted message
FormatContent(content) ==
    IF content.kind # "str"
    THEN Only({ IF blocks.ok THEN Ok(ListOut(blocks.value)) ELSE blocks :
                blocks \in {Collect([i \in 1..Len(content.items) |->
                                        FormatItem(content.items[i])])} })
    ELSE Ok(StrOut(content.text))

\* _message_type_lookups
LookupTypes == {"human", "ai"}
_message_type_lookups(type) == IF type = "human" THEN ROLE_USER ELSE ROLE_ASSISTANT

\* (system, formatted_messages), system None when system_set is FALSE
Formatted(system_set, system, formatted) ==
    [ok |-> TRUE, err |-> "", system_set |-> system_set, system |-> system,
     formatted |-> formatted]
FormatRaise(e) ==
    [ok |-> FALSE, err |-> e, system_set |-> FALSE, system |-> <<>>,
     formatted |-> <<>>]

\* FormatSingle leaving a System message out of the returned list
FormatSingleDropsSystem(message) ==
    IF message.type = "system"
    THEN IF message.content.kind # "str" THEN FormatRaise("ValueError")
         ELSE Formatted(TRUE, message.content.text, <<>>)
    ELSE IF message.type \notin LookupTypes THEN FormatRaise("KeyError")
    ELSE Only({ IF ~content.ok THEN FormatRaise(content.err)
                ELSE Formatted(FALSE, <<>>,
                               <<[role |-> _message_type_lookups(message.type),
                                  content |-> content.value]>>) :
                content \in {FormatContent(message.content)} })

\* the branch for a single Message passed directly
FormatSingle(message) ==
    IF message.type = "system" /\ message.content.kind # "str"
    THEN FormatRaise("ValueError")
    ELSE IF message.type # "system" /\ message.type \notin LookupTypes
    THEN FormatRaise("KeyError")
    ELSE
      LET role == IF message.type = "system"
                  THEN _message_type_lookups("human")
                  ELSE _message_type_lookups(message.type)
      IN  Only({ IF ~content.ok THEN FormatRaise(content.err)
                 ELSE Formatted(message.type = "system",
                                IF message.type = "system"
                                THEN message.content.text ELSE <<>>,
                                <<[role |-> role, content |-> content.value]>>) :
                 content \in {FormatContent(message.content)} })

\* SystemMisplaced with the position check left out
SystemNeverMisplaced(i) == FALSE

\* a System message at index i (1-based) is not at the beginning
SystemMisplaced(i) == i # 1

RECURSIVE FormatList(_, _, _, _, _)
\* the loop over enumerate(messages), from index i on
FormatList(msgs, i, system_set, system, formatted) ==
    IF i > Len(msgs) THEN Formatted(system_set, system, formatted)
    ELSE
      LET message == msgs[i] IN
      IF message.type = "system"
      THEN IF SystemMisplaced(i) THEN FormatRaise("ValueError")
           ELSE IF message.content.kind # "str" THEN FormatRaise("ValueError")
           ELSE FormatList(msgs, i + 1, TRUE, message.content.text, formatted)
      ELSE IF message.type \notin LookupTypes THEN FormatRaise("KeyError")
      ELSE
        Only({ IF ~content.ok THEN FormatRaise(content.err)
               ELSE FormatList(msgs, i + 1, system_set, system,
                        Append(formatted,
                               [role |-> _message_type_lookups(message.type),
                                content |-> content.value])) :
               content \in {FormatContent(message.content)} })

\* is_single: messages is one Message (msgs[1]), not a list
_format_anthropic_messages(is_single, msgs) ==
    IF is_single THEN FormatSingle(msgs[1])
    ELSE FormatList(msgs, 1, FALSE, <<>>, <<>>)

-----------------------------------------------------------------------------
(* Adapter facade.                                                          *)

\* the dispatch with amazon sent to the formatter's default tags
ConvertAmazonDefaultTags(prov, msgs, mdl) ==
    IF prov \in {"anthropic", "amazon"}
    THEN convert_messages_to_prompt_anthropic(msgs, HUMAN_PROMPT, AI_PROMPT)
    ELSE IF prov = "meta"
    THEN IF Contains(mdl, LLAMA3)
         THEN convert_messages_to_prompt_llama3(msgs)
         ELSE convert_messages_to_prompt_llama(msgs)
    ELSE IF prov = "mistral"
    THEN convert_messages_to_prompt_mistral(msgs)
    ELSE Raise("NotImplementedError")

ChatPromptAdapter_convert_messages_to_prompt(prov, msgs, mdl) ==
    IF prov = "anthropic"
    THEN convert_messages_to_prompt_anthropic(msgs, HUMAN_PROMPT, AI_PROMPT)
    ELSE IF prov = "meta"
    THEN IF Contains(mdl, LLAMA3)
         THEN convert_messages_to_prompt_llama3(msgs)
         ELSE convert_messages_to_prompt_llama(msgs)
    ELSE IF prov = "mistral"
    THEN convert_messages_to_prompt_mistral(msgs)
    ELSE IF prov = "amazon"
    THEN convert_messages_to_prompt_anthropic(msgs, USER_PROMPT, BOT_PROMPT)
    ELSE Raise("NotImplementedError")

ChatPromptAdapter_format_messages(prov, is_single, msgs) ==
    IF prov = "anthropic"
    THEN _format_anthropic_messages(is_single, msgs)
    ELSE FormatRaise("NotImplementedError")

-----------------------------------------------------------------------------
(* Inputs.                                                                  *)

MaxMsgs == 2
URL_PNG == <<"d", "a", "t", "a", ":", "i", "m", "a", "g", "e", "/", "p", "n", "g", ";", "b", "a", "s", "e", "6", "4", ",", "A", "A", "A">>
URL_HTTP == <<"h", "t", "t", "p", ":", "/", "/", "x", "/", "a", ".", "p", "n", "g">>
MODEL_CLAUDE == <<"c", "l", "a", "u", "d", "e", "-", "v", "2">>
MODEL_LLAMA3 == <<"l", "l", "a", "m", "a", "3", "-", "8", "b">>
MODEL_LLAMA2 == <<"l", "l", "a", "m", "a", "2", "-", "1", "3", "b">>
MODEL_MISTRAL == <<"m", "i", "s", "t", "r", "a", "l", "-", "7", "b">>
MODEL_TITAN == <<"t", "i", "t", "a", "n", "-", "t", "e", "x", "t">>
MODEL_COMMAND == <<"c", "o", "m", "m", "a", "n", "d">>
TXT_HI == <<"h", "i">>
TXT_SYS == <<"s", "y", "s">>
TXT_OK_SP == <<"o", "k", " ">>
TXT_X == <<"x">>
ROLE_BOT == <<"b", "O", "T">>

SystemContents ==
    {StrContent(TXT_SYS), StrContent(<<>>), ListContent(<<StrItem(TXT_X)>>)}
HumanContents ==
    {StrContent(TXT_HI),
     ListContent(<<StrItem(TXT_X)>>),
     ListContent(<<DictItem("image_url", URL_PNG)>>),
     ListContent(<<DictItem("image_url", URL_HTTP)>>),
     ListContent(<<DictItem("text", TXT_X), StrItem(TXT_HI)>>),
     ListContent(<<DictItem("none", TXT_X)>>),
     ListContent(<<OtherItem(<<"7">>)>>)}
AIContents == {StrContent(TXT_OK_SP), StrContent(<<>>)}

Messages ==
    {SystemMessage(c) : c \in SystemContents}
    \cup {HumanMessage(c) : c \in HumanContents}
    \cup {AIMessage(c) : c \in AIContents}
    \cup {ChatMessage(ROLE_BOT, StrContent(TXT_HI)), ToolMessage(StrContent(TXT_X))}

SeqsUpTo(S, n) == UNION {[1..k -> S] : k \in 0..n}
MessageLists == SeqsUpTo(Messages, MaxMsgs)

\* provider and model of the model ids in use
Configs ==
    {<<"anthropic", MODEL_CLAUDE>>, <<"meta", MODEL_LLAMA3>>, <<"meta", MODEL_LLAMA2>>,
     <<"mistral", MODEL_MISTRAL>>, <<"amazon", MODEL_TITAN>>, <<"cohere", MODEL_COMMAND>>}
TagPairs == {<<HUMAN_PROMPT, AI_PROMPT>>, <<USER_PROMPT, BOT_PROMPT>>}

-----------------------------------------------------------------------------
(* Output records.  A dict is its key set and a value for every possible    *)
(* key (the default value under a key it does not hold), so that two dicts  *)
(* are equal exactly when they hold the same keys with the same values.     *)

TokenTypes == {"prompt_tokens", "completion_tokens"}
OtherKeys == {"model_id", "stop_reason"}
NoValue == <<>>

Usage(ks, v) == [keys |-> ks, val |-> [t \in TokenTypes |-> IF t \in ks THEN v[t] ELSE 0]]
EmptyUsage == [keys |-> {}, val |-> [t \in TokenTypes |-> 0]]

\* an output record: null (None), or a dict of a usage entry and other keys
NullOutput ==
    [null |-> TRUE, usage_set |-> FALSE, usage |-> EmptyUsage,
     keys |-> {}, val |-> [k \in OtherKeys |-> NoValue]]
EmptyOutput == [NullOutput EXCEPT !.null = FALSE]

\* self.model_id
ModelId(prov, mdl) == <<prov, mdl>>

\* the operation last applied, its arguments and its result; prev is what
\* the call of _combine_llm_outputs before this one returned, if there was one
NoText == [ok |-> FALSE, err |-> "none", value |-> <<>>]
NoFormat == FormatRaise("none")
NoCall ==
    [op |-> "none", provider |-> "", model |-> <<>>, human_prompt |-> <<>>,
     ai_prompt |-> <<>>, arg |-> <<>>, text |-> NoText, fmt |-> NoFormat,
     out |-> NullOutput, prev |-> NullOutput]

-----------------------------------------------------------------------------
(* ChatBedrock: one request in flight at a time.                            *)

MaxDeltas == 2
MaxTokens == 2
Deltas == {<<"a">>, <<"b", " ">>}
DeltaSeqs == SeqsUpTo(Deltas, MaxDeltas)
Completions == {TXT_HI}
ClientUsages ==
    {EmptyUsage}
    \cup {Usage(TokenTypes, [t \in TokenTypes |-> n]) : n \in 1..MaxTokens}
Stops == {<<>>, <<TXT_X>>}
ToolPrompts == {<<"t">>, <<"u", "\n">>}

MaxRequestMsgs == 2
RequestMessages ==
    {SystemMessage(StrContent(TXT_SYS)), SystemMessage(StrContent(<<>>)),
     HumanMessage(StrContent(TXT_HI)),
     AIMessage(StrContent(TXT_OK_SP)),
     ChatMessage(ROLE_BOT, StrContent(TXT_HI))}
RequestLists == SeqsUpTo(RequestMessages, MaxRequestMsgs)

\* prompt, system and messages as handed to the hook; *_set FALSE is None
Inputs(prompt_set, prompt, system_set, system, messages_set, msgs) ==
    [ok |-> TRUE, err |-> "", prompt_set |-> prompt_set, prompt |-> prompt,
     system_set |-> system_set, system |-> system,
     messages_set |-> messages_set, messages |-> msgs]
InputsRaise(e) ==
    [ok |-> FALSE, err |-> e, prompt_set |-> FALSE, prompt |-> <<>>,
     system_set |-> FALSE, system |-> <<>>, messages_set |-> FALSE, messages |-> <<>>]

\* StreamSystem with the tools prompt put after the system text
StreamSystemToolsLast(tools_prompt, system_set, system) ==
    IF tools_prompt # <<>>
    THEN IF system_set /\ system # <<>>
         THEN [set |-> TRUE, text |-> system \o NL \o tools_prompt]
         ELSE [set |-> TRUE, text |-> tools_prompt]
    ELSE [set |-> system_set, text |-> system]

\* _stream: system once the stored tools prompt is put before it
StreamSystem(tools_prompt, system_set, system) ==
    IF tools_prompt # <<>>
    THEN IF system_set /\ system # <<>>
         THEN [set |-> TRUE, text |-> tools_prompt \o NL \o system]
         ELSE [set |-> TRUE, text |-> tools_prompt]
    ELSE [set |-> system_set, text |-> system]

\* _stream: prompt, system, formatted_messages before the hook is called
StreamInputs(prov, mdl, tools_prompt, msgs) ==
    IF prov = "anthropic"
    THEN Only({ IF ~f.ok THEN InputsRaise(f.err)
                ELSE Only({ Inputs(FALSE, <<>>, s.set, s.text, TRUE, f.formatted) :
                            s \in {StreamSystem(tools_prompt, f.system_set, f.system)} }) :
                f \in {ChatPromptAdapter_format_messages(prov, FALSE, msgs)} })
    ELSE Only({ IF ~p.ok THEN InputsRaise(p.err)
                ELSE Inputs(TRUE, p.value, FALSE, <<>>, FALSE, <<>>) :
                p \in {ChatPromptAdapter_convert_messages_to_prompt(prov, msgs, mdl)} })

\* GenerateInputs with prompt an empty string where it should be None
GenerateInputsEmptyPrompt(prov, mdl, tools_prompt, msgs) ==
    Only({ IF in.ok THEN [in EXCEPT !.prompt_set = TRUE] ELSE in :
           in \in {StreamInputs(prov, mdl, tools_prompt, msgs)} })

\* _generate: system once the stored tools prompt is put before it
GenerateSystem(tools_prompt, system_set, system) ==
    IF tools_prompt # <<>>
    THEN IF system_set /\ system # <<>>
         THEN [set |-> TRUE, text |-> tools_prompt \o NL \o system]
         ELSE [set |-> TRUE, text |-> tools_prompt]
    ELSE [set |-> system_set, text |-> system]

\* _generate without streaming: the same, by its own copy of the code
GenerateInputs(prov, mdl, tools_prompt, msgs) ==
    IF prov = "anthropic"
    THEN Only({ IF ~f.ok THEN InputsRaise(f.err)
                ELSE Only({ Inputs(FALSE, <<>>, s.set, s.text, TRUE, f.formatted) :
                            s \in {GenerateSystem(tools_prompt, f.system_set, f.system)} }) :
                f \in {ChatPromptAdapter_format_messages(prov, FALSE, msgs)} })
    ELSE Only({ IF ~p.ok THEN InputsRaise(p.err)
                ELSE Inputs(TRUE, p.value, FALSE, <<>>, FALSE, <<>>) :
                p \in {ChatPromptAdapter_convert_messages_to_prompt(prov, msgs, mdl)} })

\* the call of the external hook: which one, and its arguments
HookCall(kind, in, stop) ==
    [kind |-> kind, prompt_set |-> in.prompt_set, prompt |-> in.prompt,
     system_set |-> in.system_set, system |-> in.system,
     messages_set |-> in.messages_set, messages |-> in.messages,
     stop |-> stop,
     stop_sequences_set |-> (kind = "invoke" /\ stop # <<>>)]
NoHookCall == HookCall("none", InputsRaise(""), <<>>)

\* ChatGenerationChunk(message=AIMessageChunk(content=delta))
ChatGenerationChunk(text) == [content |-> text]

\* Accumulate assigning where it should add
AccumulateOverwrite(text, chunk) == chunk.content

\* completion += chunk.text
Accumulate(text, chunk) == text \o chunk.content

\* llm_output as _generate starts
InitialLlmOutput(prov, mdl) ==
    [EmptyOutput EXCEPT !.keys = {"model_id"},
                        !.val = [k \in OtherKeys |->
                                   IF k = "model_id" THEN ModelId(prov, mdl)
                                   ELSE NoValue]]

\* llm_output["usage"] = usage_info
WithUsage(llm_output, usage_info) ==
    [llm_output EXCEPT !.usage_set = TRUE, !.usage = usage_info]

\* what a finished call gave its caller; client_usage is the usage map the
\* external client returned in this call, if it returned one
Returned(text, usage_info, llm_output, client_set, client_usage) ==
    [status |-> "returned", err |-> "", content |-> text,
     additional_kwargs_usage |-> usage_info, llm_output |-> llm_output,
     client_usage_set |-> client_set, client_usage |-> client_usage]
Raised(e) ==
    [status |-> "raised", err |-> e, content |-> <<>>,
     additional_kwargs_usage |-> EmptyUsage, llm_output |-> NullOutput,
     client_usage_set |-> FALSE, client_usage |-> EmptyUsage]
NoResult == [Raised("") EXCEPT !.status = "none"]
Exhausted == [Raised("") EXCEPT !.status = "exhausted"]

Label(op) == [NoCall EXCEPT !.op = op]

Init ==
    /\ \E cfg \in Configs : provider = cfg[1] /\ model = cfg[2]
    /\ streaming \in BOOLEAN
    /\ system_prompt_with_tools = <<>>
    /\ messages = <<>>
    /\ single = FALSE
    /\ pc = "idle"
    /\ caller = "none"
    /\ hook = NoHookCall
    /\ pending = <<>>
    /\ consumed = <<>>
    /\ yielded = <<>>
    /\ delta = <<>>
    /\ completion = <<>>
    /\ outcome = NoResult
    /\ calls = 0
    /\ llm_outputs = <<>>
    /\ last = NoCall

configVars == <<provider, model, streaming, single, llm_outputs>>
requestVars == <<messages, pc, caller, hook, pending, consumed, yielded, delta,
                 completion, outcome, calls>>

\* set_system_prompt_with_tools(xml_tools_system_prompt); the field is for
\* caller-serialized use, so it is set between requests
SetSystemPromptWithTools ==
    /\ pc = "idle"
    /\ \E x \in ToolPrompts \cup {<<>>} : system_prompt_with_tools' = x
    /\ last' = Label("set_system_prompt_with_tools")
    /\ UNCHANGED <<configVars, requestVars>>

\* BindTools storing the tools prompt whatever the provider
BindToolsAnyProvider ==
    /\ pc = "idle"
    /\ \E system_formatted_tools \in ToolPrompts :
          system_prompt_with_tools' = system_formatted_tools
    /\ last' = Label("bind_tools")
    /\ UNCHANGED <<configVars, requestVars>>

\* bind_tools(tools): get_system_message(...) is the external collaborator's
\* text for the tools, any of ToolPrompts
BindTools ==
    /\ pc = "idle"
    /\ IF provider = "anthropic"
       THEN \E system_formatted_tools \in ToolPrompts :
               system_prompt_with_tools' = system_formatted_tools
       ELSE UNCHANGED system_prompt_with_tools
    /\ last' = Label("bind_tools")
    /\ UNCHANGED <<configVars, requestVars>>

\* the first step of the _stream generator, run for `who`: the inputs are
\* prepared and the hook is called; the external client raises at once or
\* hands back a lazy sequence of deltas
StreamBegin(who, msgs, stop) ==
    \E in \in {StreamInputs(provider, model, system_prompt_with_tools, msgs)} :
    /\ messages' = msgs
    /\ consumed' = <<>> /\ yielded' = <<>> /\ delta' = <<>> /\ completion' = <<>>
    /\ IF ~in.ok
       THEN /\ outcome' = Raised(in.err)
            /\ hook' = NoHookCall /\ calls' = 0
            /\ pc' = "done" /\ caller' = "none" /\ pending' = <<>>
       ELSE /\ hook' = HookCall("invoke_stream", in, stop)
            /\ calls' = 1
            /\ \/ /\ outcome' = Raised("ExternalError")
                  /\ pc' = "done" /\ caller' = "none" /\ pending' = <<>>
               \/ /\ pending' \in DeltaSeqs
                  /\ outcome' = NoResult
                  /\ pc' = "pull" /\ caller' = who

\* _stream(messages, stop) called and advanced for the first time
StreamCall ==
    /\ pc = "idle"
    /\ \E msgs \in RequestLists, stop \in Stops : StreamBegin("stream", msgs, stop)
    /\ last' = Label("_stream")
    /\ UNCHANGED <<configVars, system_prompt_with_tools>>

\* the for loop of _stream takes the next chunk of the external stream, or
\* finds it exhausted, or the external client raises
StreamPull ==
    /\ pc = "pull"
    /\ \/ /\ pending # <<>>
          /\ delta' = Head(pending)
          /\ consumed' = Append(consumed, Head(pending))
          /\ pending' = Tail(pending)
          /\ pc' = "yield"
          /\ UNCHANGED <<outcome, caller>>
       \/ /\ pending = <<>>
          /\ outcome' = IF caller = "generate"
                        THEN Returned(completion, EmptyUsage,
                                      InitialLlmOutput(provider, model),
                                      FALSE, EmptyUsage)
                        ELSE Exhausted
          /\ pc' = "done" /\ caller' = "none"
          /\ UNCHANGED <<delta, consumed, pending>>
       \/ /\ outcome' = Raised("ExternalError")
          /\ pc' = "done" /\ caller' = "none"
          /\ UNCHANGED <<delta, consumed, pending>>
    /\ UNCHANGED <<configVars, system_prompt_with_tools, messages, hook, yielded,
                   completion, calls, last>>

\* _stream yields the chunk for the delta it holds; when _generate drives
\* it, the chunk's text is added to the completion
StreamYield ==
    /\ pc = "yield"
    /\ yielded' = Append(yielded, ChatGenerationChunk(delta))
    /\ completion' = IF caller = "generate"
                     THEN Accumulate(completion, ChatGenerationChunk(delta))
                     ELSE completion
    /\ pc' = "pull"
    /\ UNCHANGED <<configVars, system_prompt_with_tools, messages, caller, hook,
                   pending, consumed, delta, outcome, calls, last>>

\* _generate(messages, stop): with the streaming flag it runs _stream; else
\* it prepares the inputs and calls the blocking hook
GenerateCall ==
    /\ pc = "idle"
    /\ \E msgs \in RequestLists, stop \in Stops :
         IF streaming
         THEN StreamBegin("generate", msgs, stop)
         ELSE \E in \in {GenerateInputs(provider, model,
                                           system_prompt_with_tools, msgs)} :
              /\ messages' = msgs
              /\ consumed' = <<>> /\ yielded' = <<>> /\ delta' = <<>>
              /\ completion' = <<>> /\ pending' = <<>>
              /\ IF ~in.ok
                 THEN /\ outcome' = Raised(in.err)
                      /\ hook' = NoHookCall /\ calls' = 0
                      /\ pc' = "done" /\ caller' = "none"
                 ELSE /\ hook' = HookCall("invoke", in, stop)
                      /\ calls' = 1
                      /\ outcome' = NoResult
                      /\ pc' = "invoke" /\ caller' = "generate"
    /\ last' = Label("_generate")
    /\ UNCHANGED <<configVars, system_prompt_with_tools>>

\* the blocking hook returns (completion, usage_info), or raises
InvokeReturn ==
    /\ pc = "invoke"
    /\ \/ \E text \in Completions, usage_info \in ClientUsages :
            /\ completion' = text
            /\ outcome' = Returned(text, usage_info,
                                   WithUsage(InitialLlmOutput(provider, model), usage_info),
                                   TRUE, usage_info)
       \/ /\ outcome' = Raised("ExternalError")
          /\ UNCHANGED completion
    /\ pc' = "done" /\ caller' = "none"
    /\ UNCHANGED <<configVars, system_prompt_with_tools, messages, hook, pending,
                   consumed, yielded, delta, calls, last>>

\* the caller is through with the finished call: the request's objects are
\* discarded, the wrapper keeps its configuration and its tools prompt
Discard ==
    /\ pc = "done"
    /\ messages' = <<>>
    /\ pc' = "idle" /\ caller' = "none"
    /\ hook' = NoHookCall
    /\ pending' = <<>> /\ consumed' = <<>> /\ yielded' = <<>> /\ delta' = <<>>
    /\ completion' = <<>>
    /\ outcome' = NoResult
    /\ calls' = 0
    /\ last' = NoCall
    /\ UNCHANGED <<configVars, system_prompt_with_tools>>

Next ==
    \/ SetSystemPromptWithTools
    \/ BindTools
    \/ StreamCall
    \/ StreamPull
    \/ StreamYield
    \/ GenerateCall
    \/ InvokeReturn
    \/ Discard

Spec == Init /\ [][Next]_vars

-----------------------------------------------------------------------------
(* Properties of the wrapper, under Spec.                                   *)

\* C1: every _generate call that returns, with the streaming flag or
\* without it, returns an llm_output holding model_id and usage, and a
\* message whose additional_kwargs["usage"] is the usage map the external
\* client returned.
C1_GenerateReturnsUsage ==
    outcome.status = "returned" =>
        /\ "model_id" \in outcome.llm_output.keys
        /\ outcome.llm_output.usage_set
        /\ outcome.client_usage_set
        /\ outcome.additional_kwargs_usage = outcome.client_usage

\* C3: whenever _generate or _stream has called the external hook, exactly
\* one input shape is populated: on anthropic prompt is None and messages is
\* a list; on any other provider prompt is a string and system and messages
\* are None.
C3_OneInputShape ==
    hook.kind # "none" =>
        IF provider = "anthropic"
        THEN ~hook.prompt_set /\ hook.messages_set
        ELSE hook.prompt_set /\ ~hook.system_set /\ ~hook.messages_set

C3_Witness ==
    /\ hook.kind = "invoke"
    /\ provider = "amazon"
    /\ hook.prompt_set
    /\ EndsWith(hook.prompt, BOT_PROMPT)

\* the system text a message list supplies
SuppliedSystem(msgs) ==
    IF msgs # <<>> /\ msgs[1].type = "system" THEN msgs[1].content.text ELSE <<>>

\* C4: with a non-empty tools prompt T stored on an anthropic model, every
\* _generate and _stream call that reaches the external client passes
\* system = T + "\n" + S when the messages supply a non-empty system text S
\* and system = T when they supply none; and no step of a request changes
\* the stored T.
C4_ToolsPromptPrepended ==
    [][/\ (pc # "idle" \/ pc' # "idle") =>
            system_prompt_with_tools' = system_prompt_with_tools
       /\ (/\ hook'.kind # "none"
           /\ provider' = "anthropic"
           /\ system_prompt_with_tools' # <<>>) =>
            /\ hook'.system_set
            /\ hook'.system =
                 IF SuppliedSystem(messages') # <<>>
                 THEN system_prompt_with_tools' \o <<"\n">> \o SuppliedSystem(messages')
                 ELSE system_prompt_with_tools']_vars

C4_Witness ==
    /\ provider = "anthropic"
    /\ hook.kind = "invoke_stream"
    /\ system_prompt_with_tools = <<"u", "\n">>
    /\ hook.system = <<"u", "\n", "\n", "s", "y", "s">>
    /\ Len(yielded) = 1

\* C5: on a provider other than anthropic, bind_tools changes neither
\* system_prompt_with_tools nor anything else of the model, and every
\* _generate or _stream call hands the hook the prompt the facade makes of
\* the provider, the messages and the model alone.
C5_BindToolsNoOp ==
    [][/\ (last'.op = "bind_tools" /\ provider # "anthropic") =>
            /\ system_prompt_with_tools' = system_prompt_with_tools
            /\ UNCHANGED <<configVars, requestVars>>
       /\ (hook'.kind # "none" /\ provider' # "anthropic") =>
            hook'.prompt =
              ChatPromptAdapter_convert_messages_to_prompt(
                  provider', messages', model').value]_vars

C5_Witness ==
    /\ last.op = "bind_tools"
    /\ provider = "meta"
    /\ system_prompt_with_tools # <<>>

\* C6: _stream yields one chunk per delta taken from the external stream,
\* in order and with the same text, each before the next delta is taken;
\* _generate with the streaming flag returns the concatenation of all the
\* deltas and never calls the blocking hook.
C6_StreamingOrder ==
    /\ Len(yielded) <= Len(consumed)
    /\ Len(consumed) <= Len(yielded) + 1
    /\ (Len(consumed) = Len(yielded) + 1) <=> (pc = "yield")
    /\ \A i \in 1..Len(yielded) : yielded[i].content = consumed[i]
    /\ streaming => hook.kind # "invoke"
    /\ (outcome.status \in {"returned", "exhausted"} /\ hook.kind = "invoke_stream") =>
         /\ pending = <<>>
         /\ Len(yielded) = Len(consumed)
         /\ calls = 1
    /\ (outcome.status = "returned" /\ hook.kind = "invoke_stream") =>
         outcome.content = Concat(consumed)

C6_Witness ==
    /\ outcome.status = "returned"
    /\ hook.kind = "invoke_stream"
    /\ Len(consumed) = 2
    /\ consumed[1] # consumed[2]
    /\ outcome.content = consumed[1] \o consumed[2]

\* a System message at an index greater than 0 (0-based)
LateSystem(msgs) == \E i \in 2..Len(msgs) : msgs[i].type = "system"

\* C8: for a message list with a System message at an index greater than 0
\* the structured formatter raises (the position error, or the error of an
\* earlier message) and returns nothing; a _generate or _stream call on an
\* anthropic model with such a list raises that error without having
\* called the external client.
C8_LateSystemRejected ==
    LateSystem(messages) =>
        /\ ~_format_anthropic_messages(FALSE, messages).ok
        /\ _format_anthropic_messages(FALSE, messages).err \in {"ValueError", "KeyError"}
        /\ provider = "anthropic" =>
             /\ pc = "done"
             /\ outcome.status = "raised"
             /\ outcome.err = _format_anthropic_messages(FALSE, messages).err
             /\ hook.kind = "none"
             /\ calls = 0

C8_Witness ==
    /\ LateSystem(messages)
    /\ messages[1].type = "human"
    /\ provider = "anthropic"
    /\ streaming
    /\ last.op = "_generate"
    /\ outcome.status = "raised"
    /\ outcome.err = "ValueError"

-----------------------------------------------------------------------------
(* The formatters and the facade applied to the caller's messages.          *)

wrapperVars == <<provider, model, streaming, system_prompt_with_tools, pc, caller, hook,
                 pending, consumed, yielded, delta, completion, outcome, calls>>

\* the wrapper at rest, for the specifications that do not run it
WrapperIdle ==
    /\ provider = "anthropic" /\ model = MODEL_CLAUDE /\ streaming = FALSE
    /\ system_prompt_with_tools = <<>>
    /\ pc = "idle" /\ caller = "none" /\ hook = NoHookCall /\ pending = <<>>
    /\ consumed = <<>> /\ yielded = <<>> /\ delta = <<>> /\ completion = <<>>
    /\ outcome = NoResult /\ calls = 0

InitFormat ==
    /\ WrapperIdle
    /\ llm_outputs = <<>>
    /\ messages \in MessageLists
    /\ single \in {b \in BOOLEAN : b => Len(messages) = 1}
    /\ last = NoCall

\* convert_messages_to_prompt_anthropic(messages, human_prompt=..., ai_prompt=...)
CallConvertAnthropic ==
    /\ ~single
    /\ \E tags \in TagPairs :
         last' = [NoCall EXCEPT !.op = "anthropic",
                                !.human_prompt = tags[1], !.ai_prompt = tags[2],
                                !.arg = messages,
                                !.text = convert_messages_to_prompt_anthropic(
                                             messages, tags[1], tags[2])]
    /\ messages' = IF messages = <<>> THEN messages
                   ELSE CallerListAfterAnthropic(messages)
    /\ UNCHANGED <<wrapperVars, single, llm_outputs>>

\* ChatPromptAdapter.convert_messages_to_prompt(provider, messages, model)
CallAdapterConvert ==
    /\ ~single
    /\ \E cfg \in Configs :
         /\ last' = [NoCall EXCEPT !.op = "convert",
                                   !.provider = cfg[1], !.model = cfg[2],
                                   !.arg = messages,
                                   !.text = ChatPromptAdapter_convert_messages_to_prompt(
                                                cfg[1], messages, cfg[2])]
         /\ messages' = IF cfg[1] \in {"anthropic", "amazon"} /\ messages # <<>>
                        THEN CallerListAfterAnthropic(messages)
                        ELSE messages
    /\ UNCHANGED <<wrapperVars, single, llm_outputs>>

\* ChatPromptAdapter.format_messages(provider, messages)
CallAdapterFormat ==
    /\ \E cfg \in Configs :
         last' = [NoCall EXCEPT !.op = "format",
                                !.provider = cfg[1], !.arg = messages,
                                !.fmt = ChatPromptAdapter_format_messages(
                                            cfg[1], single, messages)]
    /\ UNCHANGED <<wrapperVars, messages, single, llm_outputs>>

NextFormat == CallConvertAnthropic \/ CallAdapterConvert \/ CallAdapterFormat

SpecFormat == InitFormat /\ [][NextFormat]_vars

-----------------------------------------------------------------------------
(* Properties of the formatters and the facade, under SpecFormat.           *)

NonSystem(msgs) == SelectSeq(msgs, LAMBDA m : m.type # "system")
FormatAccepted ==
    last.op = "format" /\ last.provider = "anthropic" /\ last.fmt.ok
\* the accepted input holds a System message (necessarily with string content)
SystemGiven == \E i \in 1..Len(last.arg) : last.arg[i].type = "system"
SystemText ==
    last.arg[CHOOSE i \in 1..Len(last.arg) : last.arg[i].type = "system"].content.text
\* the returned entries are the non-System messages, one each, in order
EntriesAreNonSystem ==
    /\ Len(last.fmt.formatted) = Len(NonSystem(last.arg))
    /\ \A j \in 1..Len(last.fmt.formatted) :
         /\ NonSystem(last.arg)[j].type \in {"human", "ai"}
         /\ last.fmt.formatted[j].role =
              IF NonSystem(last.arg)[j].type = "human" THEN ROLE_USER ELSE ROLE_ASSISTANT

\* C2 as stated: for every accepted input of _format_anthropic_messages, a
\* list or a single Message, a System message's string content is returned
\* in the system slot and the returned list has no entry for it: every
\* entry corresponds to a non-System input message.
C2_SystemExcludedOnBothPaths ==
    (FormatAccepted /\ SystemGiven) =>
        /\ last.fmt.system_set
        /\ last.fmt.system = SystemText
        /\ EntriesAreNonSystem

\* C2 amended: for an accepted message list, the System message's string
\* content is returned in the system slot and the returned entries are
\* exactly the non-System messages in order; for an accepted single System
\* Message passed directly, its content is returned in the system slot and
\* the returned list holds one entry, of role user with that same content.
C2_SystemSlotAndEntries ==
    (FormatAccepted /\ SystemGiven) =>
        /\ last.fmt.system_set
        /\ last.fmt.system = SystemText
        /\ ~single => EntriesAreNonSystem
        /\ single => last.fmt.formatted =
                        <<[role |-> ROLE_USER, content |-> StrOut(SystemText)]>>

C2_Witness ==
    /\ FormatAccepted /\ SystemGiven /\ single
    /\ Len(last.fmt.formatted) = 1

\* C9: for every non-empty message list whose last message is not an AI
\* message, and for both tag pairs, convert_messages_to_prompt_anthropic
\* returns (whenever every message is a System, Human, AI or Generic one and
\* every System message's content is a string) a text that ends with the
\* assistant-prompt tag, and the caller's list is the list that was passed.
C9_EndsWithAssistantTag ==
    (/\ last.op = "anthropic"
     /\ last.arg # <<>>
     /\ last.arg[Len(last.arg)].type # "ai") =>
        /\ (\A i \in 1..Len(last.arg) :
               /\ last.arg[i].type \in {"system", "human", "ai", "chat"}
               /\ last.arg[i].type = "system" => last.arg[i].content.kind = "str")
             => last.text.ok
        /\ last.text.ok => EndsWith(last.text.value, last.ai_prompt)
        /\ messages = last.arg

C9_Witness ==
    /\ last.op = "anthropic"
    /\ last.ai_prompt = BOT_PROMPT
    /\ Len(last.arg) = 2
    /\ last.arg[2].type = "chat"
    /\ last.text.ok
    /\ EndsWith(last.text.value, BOT_PROMPT)

\* C10: convert_messages_to_prompt returns exactly what the designated
\* formatter returns (anthropic: Anthropic-style with Human/Assistant tags;
\* amazon: Anthropic-style with User/Bot tags; mistral: Mistral-style; meta:
\* Llama3-style when the model identifier contains "llama3", else
\* Llama-style) and raises NotImplementedError for any other provider;
\* format_messages raises NotImplementedError for every provider other than
\* anthropic.
C10_Dispatch ==
    /\ last.op = "convert" =>
         last.text =
           CASE last.provider = "anthropic" ->
                  convert_messages_to_prompt_anthropic(last.arg, HUMAN_PROMPT, AI_PROMPT)
             [] last.provider = "amazon" ->
                  convert_messages_to_prompt_anthropic(last.arg, USER_PROMPT, BOT_PROMPT)
             [] last.provider = "mistral" ->
                  convert_messages_to_prompt_mistral(last.arg)
             [] last.provider = "meta" /\ Contains(last.model, LLAMA3) ->
                  convert_messages_to_prompt_llama3(last.arg)
             [] last.provider = "meta" /\ ~Contains(last.model, LLAMA3) ->
                  convert_messages_to_prompt_llama(last.arg)
             [] OTHER -> Raise("NotImplementedError")
    /\ (last.op = "format" /\ last.provider # "anthropic") =>
         (~last.fmt.ok /\ last.fmt.err = "NotImplementedError")

C10_Witness ==
    /\ last.op = "convert"
    /\ last.provider = "meta"
    /\ last.model = MODEL_LLAMA3
    /\ last.text.ok
    /\ last.text.value # convert_messages_to_prompt_llama(last.arg).value

-----------------------------------------------------------------------------
(* _combine_llm_outputs.                                                    *)

\* output or {}
OrEmpty(output) == IF output.null THEN EmptyOutput ELSE output

\* usage = output.pop("usage", {}): the value popped
PoppedUsage(output) == IF output.usage_set THEN output.usage ELSE EmptyUsage

\* output once "usage" is popped
WithoutUsage(output) == [output EXCEPT !.usage_set = FALSE, !.usage = EmptyUsage]

\* AddUsage assigning the count where it should add it
AddUsageOverwrite(final_usage, usage) ==
    [keys |-> final_usage.keys \cup usage.keys,
     val |-> [t \in TokenTypes |->
                IF t \in usage.keys THEN usage.val[t] ELSE final_usage.val[t]]]

\* final_usage[token_type] += token_count, for every item of usage
AddUsage(final_usage, usage) ==
    [keys |-> final_usage.keys \cup usage.keys,
     val |-> [t \in TokenTypes |->
                IF t \in usage.keys
                THEN final_usage.val[t] + usage.val[t]
                ELSE final_usage.val[t]]]

\* final_output.update(output), output without its "usage"
Update(final_output, output) ==
    [final_output EXCEPT
        !.keys = final_output.keys \cup output.keys,
        !.val = [k \in OtherKeys |->
                   IF k \in output.keys THEN output.val[k] ELSE final_output.val[k]]]

RECURSIVE CombineFrom(_, _, _, _)
\* the loop over llm_outputs from index i on, then final_output["usage"]
CombineFrom(outs, i, final_usage, final_output) ==
    IF i > Len(outs)
    THEN [final_output EXCEPT !.usage_set = TRUE, !.usage = final_usage]
    ELSE Only({ CombineFrom(outs, i + 1,
                            AddUsage(final_usage, PoppedUsage(output)),
                            Update(final_output, WithoutUsage(output))) :
                output \in {OrEmpty(outs[i])} })

_combine_llm_outputs(outs) == CombineFrom(outs, 1, EmptyUsage, EmptyOutput)

\* OutputsAfterCombine with "usage" popped from a copy of each record
OutputsUntouched(outs) == outs

\* the caller's records once _combine_llm_outputs is over: "usage" was
\* popped from every dict that is not empty
OutputsAfterCombine(outs) ==
    [i \in 1..Len(outs) |-> IF outs[i].null THEN outs[i] ELSE WithoutUsage(outs[i])]

MaxOutputs == 2
UsageDicts ==
    {EmptyUsage}
    \cup {Usage({"prompt_tokens"}, [t \in TokenTypes |-> n]) : n \in 1..MaxTokens}
    \cup {Usage(TokenTypes, [t \in TokenTypes |->
                               IF t = "prompt_tokens" THEN n ELSE m]) :
            n \in 1..MaxTokens, m \in 1..MaxTokens}
OtherEntries ==
    {[keys |-> {}, val |-> [k \in OtherKeys |-> NoValue]],
     [keys |-> {"model_id"},
      val |-> [k \in OtherKeys |->
                 IF k = "model_id" THEN ModelId("anthropic", MODEL_CLAUDE) ELSE NoValue]],
     [keys |-> OtherKeys,
      val |-> [k \in OtherKeys |->
                 IF k = "model_id" THEN ModelId("meta", MODEL_LLAMA3) ELSE <<"e">>]],
     [keys |-> {"stop_reason"},
      val |-> [k \in OtherKeys |-> IF k = "model_id" THEN NoValue ELSE <<"m">>]]}
OutputRecords ==
    {NullOutput}
    \cup {[null |-> FALSE, usage_set |-> FALSE, usage |-> EmptyUsage,
           keys |-> o.keys, val |-> o.val] : o \in OtherEntries}
    \cup {[null |-> FALSE, usage_set |-> TRUE, usage |-> u,
           keys |-> o.keys, val |-> o.val] : u \in UsageDicts, o \in OtherEntries}
OutputLists == SeqsUpTo(OutputRecords, MaxOutputs)

InitCombine ==
    /\ WrapperIdle
    /\ messages = <<>>
    /\ single = FALSE
    /\ llm_outputs \in OutputLists
    /\ last = NoCall

\* self._combine_llm_outputs(llm_outputs), on the caller's list as the calls
\* before it left it
CallCombine ==
    /\ last' = [NoCall EXCEPT !.op = "combine", !.arg = llm_outputs,
                              !.out = _combine_llm_outputs(llm_outputs),
                              !.prev = last.out]
    /\ llm_outputs' = OutputsAfterCombine(llm_outputs)
    /\ UNCHANGED <<wrapperVars, messages, single>>

NextCombine == CallCombine

SpecCombine == InitCombine /\ [][NextCombine]_vars

\* the count of token type t in an input record, zero when absent
CountIn(output, t) ==
    IF ~output.null /\ output.usage_set /\ t \in output.usage.keys
    THEN output.usage.val[t]
    ELSE 0

RECURSIVE TotalIn(_, _)
TotalIn(outs, t) ==
    IF outs = <<>> THEN 0 ELSE CountIn(Head(outs), t) + TotalIn(Tail(outs), t)

\* the input records that hold key k
Holding(outs, k) == {i \in 1..Len(outs) : ~outs[i].null /\ k \in outs[i].keys}

\* C7: for every list of output records, null ones and ones without usage
\* included, _combine_llm_outputs returns a record with a usage key that
\* maps every token type to the sum of its counts over the inputs (zero
\* where absent), and under every other key the value of the last input
\* record holding that key.
C7_CombineSumsUsage ==
    last.op = "combine" =>
        /\ ~last.out.null
        /\ last.out.usage_set
        /\ \A t \in TokenTypes : last.out.usage.val[t] = TotalIn(last.arg, t)
        /\ \A k \in OtherKeys :
             /\ k \in last.out.keys <=> Holding(last.arg, k) # {}
             /\ k \in last.out.keys =>
                  \E i \in Holding(last.arg, k) :
                     /\ \A j \in Holding(last.arg, k) : j <= i
                     /\ last.out.val[k] = last.arg[i].val[k]

C7_Witness ==
    /\ last.op = "combine"
    /\ Len(last.arg) = 2
    /\ last.arg[1].usage_set /\ last.arg[2].usage_set
    /\ last.arg[1].usage.keys = TokenTypes
    /\ last.arg[2].usage.keys = {"prompt_tokens"}
    /\ last.arg[1].val["model_id"] # last.arg[2].val["model_id"]
    /\ last.arg[2].keys = {"model_id"}
    /\ last.out.usage.val["prompt_tokens"] = 3
    /\ last.out.usage.val["completion_tokens"] = 2
    /\ last.out.val["model_id"] = last.arg[2].val["model_id"]

\* C11: _combine_llm_outputs modifies its inputs: after a call no non-null
\* input record holds a usage key any more, while the other keys of every
\* record are as they were passed; so a second call on the same list returns
\* an empty usage map, and under the other keys what the first call returned.
C11_CombinePopsUsage ==
    last.op = "combine" =>
        /\ Len(llm_outputs) = Len(last.arg)
        /\ \A i \in 1..Len(llm_outputs) :
             /\ llm_outputs[i].null = last.arg[i].null
             /\ ~llm_outputs[i].null => ~llm_outputs[i].usage_set
             /\ llm_outputs[i].keys = last.arg[i].keys
             /\ llm_outputs[i].val = last.arg[i].val
        /\ ~last.prev.null =>
             /\ last.out.usage_set
             /\ last.out.usage = EmptyUsage
             /\ last.out.keys = last.prev.keys
             /\ last.out.val = last.prev.val

C11_Witness ==
    /\ last.op = "combine"
    /\ ~last.prev.null
    /\ last.prev.usage.keys = TokenTypes
    /\ last.prev.usage.val["prompt_tokens"] = 3
    /\ last.out.usage.keys = {}
    /\ last.out.keys = OtherKeys
    /\ Len(llm_outputs) = 2

====
